---------------------------- MODULE Spec2Model ----------------------------
(***************************************************************************)
(* Model of the video output layer of OpenJazzNX (src/io/gfx/video.cpp,    *)
(* SDL2 build: the window/renderer/texture code paths) and of the RLE      *)
(* decoder declared in src/io/file.h.                                      *)
(*                                                                         *)
(* The Video object, the SDL screen surface (its palette table and its     *)
(* pixels), the palettes owned by the callers and the position of the      *)
(* palette effects are the state.  Every public operation of Video is an   *)
(* operator from a world record to a world record, so that the calls the   *)
(* code nests (setPalette -> clearScreen, flip; init -> reset -> expose;   *)
(* update -> reset, findMaxResolution) are nested in the model too.        *)
(*                                                                         *)
(* Palettes hold NumColors entries instead of 256, the screen surface      *)
(* NumPixels pixels in a single row instead of 320x200, and a colour       *)
(* channel NumColors levels instead of 256.                                *)
(***************************************************************************)
EXTENDS Integers, Sequences, FiniteSets, TLC

VARIABLES video, sdl, app, last, patch, rle

vars == <<video, sdl, app, last, patch, rle>>

---------------------------------------------------------------------------
(* Bounds *)

NumColors == 3
NumPixels == 2
FxPeriod == 2
MaxRLEInput == 4
MaxRLELength == 3

---------------------------------------------------------------------------
(* Colours and palettes *)

NULL == 0

Index == 0 .. (NumColors - 1)

Levels == NumColors

Color(r, g, b) == [r |-> r, g |-> g, b |-> b]

Black == Color(0, 0, 0)

White == Color(Levels - 1, Levels - 1, Levels - 1)

\* A palette is a sequence of NumColors colours; entry i of the C array is
\* element i + 1 of the sequence.
At(palette, i) == palette[i + 1]

\* Video::Video, the loop that generates the logical palette
IdentityPalette == [k \in 1 .. NumColors |-> Color(k - 1, k - 1, k - 1)]

\* A palette of a new 8-bit SDL surface: SDL_AllocPalette sets every entry
\* to white.
NewSurfacePalette == [k \in 1 .. NumColors |-> White]

\* The palette buffer a caller owns (a level's palette)
CallerPalettes ==
    [level |-> [k \in 1 .. NumColors |-> Color(NumColors - k, k - 1, 0)]]

PalettePtrs == {"logicalPalette", "level"}

\* The colours a palette pointer refers to
Deref(w, ptr) ==
    IF ptr = "logicalPalette" THEN w.video.logicalPalette
    ELSE w.app.palettes[ptr]

\* The world with the colours a palette pointer refers to overwritten
Store(w, ptr, colors) ==
    IF ptr = "logicalPalette"
    THEN [w EXCEPT !.video.logicalPalette = colors]
    ELSE [w EXCEPT !.app.palettes[ptr] = colors]

---------------------------------------------------------------------------
(* The SDL calls the code makes *)

Min(a, b) == IF a < b THEN a ELSE b

\* SDL_SetPaletteColors(palette, colors, firstcolor, ncolors): copies
\* colors[0 .. n) to palette->colors[firstcolor .. firstcolor + n), where n
\* is ncolors clamped to the entries the palette has from firstcolor on.
SDL_SetPaletteColorsWhole(table, colors, firstcolor, ncolors) ==
    [k \in 1 .. NumColors |-> colors[k]]

SDL_SetPaletteColors(table, colors, firstcolor, ncolors) ==
    LET n == Min(ncolors, NumColors - firstcolor)
    IN  [k \in 1 .. NumColors |->
            IF (k - 1 >= firstcolor) /\ (k - 1 < firstcolor + n)
            THEN colors[k - firstcolor]
            ELSE table[k]]

Sq(x) == x * x

Distance(c, d) == Sq(c.r - d.r) + Sq(c.g - d.g) + Sq(c.b - d.b)

\* SDL_MapRGB on an 8-bit surface: the index of the palette entry closest to
\* the colour, the lowest such index.
SDL_MapRGB(table, c) ==
    CHOOSE i \in Index :
        /\ \A j \in Index : Distance(At(table, i), c) <= Distance(At(table, j), c)
        /\ \A j \in Index :
              (Distance(At(table, j), c) = Distance(At(table, i), c)) => (i <= j)

\* SDL_FillRect on the single row of the surface, clipped to the surface
SDL_FillRect(pixels, x, width, index) ==
    [k \in 1 .. NumPixels |->
        IF (k - 1 >= x) /\ (k - 1 < x + width) THEN index ELSE pixels[k]]

\* The 32-bit value flip stores in helper_surface for a pixel:
\* (r << 24) | (g << 16) | (b << 8) | 0xff
PackRGBA(c) == c.r * 16777216 + c.g * 65536 + c.b * 256 + 255

---------------------------------------------------------------------------
(* Palette effects (paletteeffects.h): a chain of effects, each owning the *)
(* index range [first, first + amount), applied in chain order; the        *)
(* position of the chain advances by mspf unless the effects are stopped.  *)

Effect(first, amount, shift) == [first |-> first, amount |-> amount, shift |-> shift]

ShiftColor(c, k) == [c EXCEPT !.r = (c.r + k) % Levels]

ApplyEffect(palette, e, pos) ==
    [k \in 1 .. NumColors |->
        IF (k - 1 >= e.first) /\ (k - 1 < e.first + e.amount)
        THEN ShiftColor(palette[k], e.shift + pos)
        ELSE palette[k]]

RECURSIVE ApplyChain(_, _, _)
ApplyChain(palette, chain, pos) ==
    IF chain = <<>> THEN palette
    ELSE ApplyChain(ApplyEffect(palette, Head(chain), pos), Tail(chain), pos)

AdvanceEffects(pos, mspf, stopped) ==
    IF stopped THEN pos ELSE (pos + mspf) % FxPeriod

\* The effect chains the callers pass to flip; <<>> is the NULL chain.
WholeShift == Effect(0, NumColors, 1)
TailShift == Effect(1, NumColors - 1, 1)
Chains == {<<>>, <<WholeShift>>, <<TailShift, WholeShift>>}

---------------------------------------------------------------------------
(* The operations of Video, as functions of the world                      *)
(*   w.video  the fields of the Video object                               *)
(*   w.sdl    the screen surface (palette table, pixels), window title,    *)
(*            cursor                                                       *)
(*   w.app    the callers' palettes, the effects' position, crashed        *)
(*   w.log    what the running call has handed to the display so far       *)

\* A valid window or surface pointer
VALID == 1

EmptyLog ==
    [frames |-> <<>>, presents |-> 0, created |-> 0, errors |-> <<>>, ret |-> "void"]

\* Video::expose
expose(w) ==
    IF w.video.screen = NULL
    THEN [w EXCEPT !.app.crashed = TRUE]
    ELSE LET logical == SDL_SetPaletteColors(w.sdl.colors,
                            w.video.logicalPalette, 0, NumColors)
         IN  [w EXCEPT !.sdl.colors =
                 SDL_SetPaletteColors(logical,
                     Deref(w, w.video.currentPalette), 0, NumColors)]

\* Video::findMaxResolution (SDL2: DEFAULT_SCREEN_WIDTH x DEFAULT_SCREEN_HEIGHT)
findMaxResolution(w) ==
    [w EXCEPT !.video.maxW = NumPixels, !.video.maxH = 1]

\* reset's assumption about the display: the palette is emulated
AssumedRealPalette == FALSE

AssumedFakePalette == TRUE

\* Video::reset.  windowOk, screenOk: whether SDL_CreateWindow and
\* SDL_CreateRGBSurface (the screen surface) succeed.
reset(w, width, height, windowOk, screenOk) ==
    LET window == IF windowOk THEN VALID ELSE NULL
        screen == IF screenOk THEN VALID ELSE NULL
        w1 == [w EXCEPT !.video.screenW = width,
                        !.video.screenH = height,
                        !.video.window = window,
                        !.video.screen = screen,
                        !.sdl.colors = IF screenOk THEN NewSurfacePalette ELSE <<>>,
                        !.sdl.pixels = IF screenOk THEN [k \in 1 .. NumPixels |-> 0]
                                       ELSE <<>>,
                        !.log.created = @ + (IF windowOk THEN 1 ELSE 0)
                                          + (IF screenOk THEN 1 ELSE 0),
                        !.log.presents = @ + 1]
        w2 == [w1 EXCEPT !.video.canvasW = width,
                         !.video.canvasH = height,
                         !.video.canvas = screen]
        w3 == expose(w2)
    IN  IF w3.app.crashed THEN w3
        ELSE [w3 EXCEPT !.video.fakePalette = AssumedFakePalette,
                        !.log.ret = TRUE]

\* Video::init
init(w, width, height, startFullscreen, windowOk, screenOk) ==
    LET w1 == [w EXCEPT !.video.fullscreen = startFullscreen,
                        !.sdl.cursor = IF startFullscreen THEN FALSE ELSE @]
        w2 == reset(w1, width, height, windowOk, screenOk)
    IN  IF w2.app.crashed THEN w2
        ELSE IF w2.log.ret = FALSE
        THEN [w2 EXCEPT !.log.errors = Append(@, "Could not set video mode"),
                        !.log.ret = FALSE]
        ELSE LET w3 == [w2 EXCEPT !.sdl.title =
                            IF w2.video.window = NULL THEN @ ELSE "OpenJazz"]
             IN  [findMaxResolution(w3) EXCEPT !.log.ret = TRUE]

\* Video::clearScreen (canvas is the screen surface: SCALE is not defined)
clearScreen(w, index) ==
    [w EXCEPT !.sdl.pixels = SDL_FillRect(@, 0, NumPixels, index)]

\* drawRect
drawRect(w, x, width, index) ==
    [w EXCEPT !.sdl.pixels = SDL_FillRect(@, x, width, index)]

\* The buffer the effects of flip are applied to: the local shownPalette.
FlipEffectTargetInPlace(w) == w.video.currentPalette

FlipEffectTarget(w) == "shownPalette"

\* The palette flip converts the pixels with: the screen surface's table.
FlipFramePaletteCurrent(w) == Deref(w, w.video.currentPalette)

FlipFramePalette(w) == w.sdl.colors

\* Whether flip writes the display palette table: only with an effect chain.
FlipWritesTableAlways(chain) == TRUE

FlipWritesTable(chain) == chain # <<>>

\* Video::flip
flip(w, mspf, paletteEffects, effectsStopped) ==
    LET physical == Deref(w, w.video.currentPalette)
        shown == ApplyChain(physical, paletteEffects, w.app.fxPos)
        target == IF w.video.fakePalette THEN FlipEffectTarget(w)
                  ELSE w.video.currentPalette
        w1 == IF ~FlipWritesTable(paletteEffects) THEN w
              ELSE LET ws == IF target = "shownPalette" THEN w
                             ELSE Store(w, target, shown)
                   IN  [ws EXCEPT !.sdl.colors =
                               SDL_SetPaletteColors(@, shown, 0, NumColors),
                           !.app.fxPos = IF paletteEffects = <<>> THEN @
                               ELSE AdvanceEffects(@, mspf, effectsStopped)]
        frame == [k \in 1 .. NumPixels |->
                     PackRGBA(At(FlipFramePalette(w1), w1.sdl.pixels[k]))]
    IN  [w1 EXCEPT !.log.frames = Append(@, frame),
                   !.log.presents = @ + 1]

\* Video::setPalette with the palette swapped before the blank frame is shown
setPaletteSwapFirst(w, palette) ==
    LET w1 == [w EXCEPT !.sdl.colors =
                   SDL_SetPaletteColors(@, Deref(w, palette), 0, NumColors)]
        w2 == clearScreen(w1, SDL_MapRGB(w1.sdl.colors, Black))
        w3 == flip(w2, 0, <<>>, FALSE)
    IN  [w3 EXCEPT !.video.currentPalette = palette]

\* Video::setPalette
setPalette(w, palette) ==
    LET w1 == clearScreen(w, SDL_MapRGB(w.sdl.colors, Black))
        w2 == flip(w1, 0, <<>>, FALSE)
        w3 == [w2 EXCEPT !.sdl.colors =
                   SDL_SetPaletteColors(@, Deref(w2, palette), 0, NumColors)]
    IN  [w3 EXCEPT !.video.currentPalette = palette]

\* Video::changePalette
changePalette(w, palette, first, amount) ==
    [w EXCEPT !.sdl.colors =
        SDL_SetPaletteColors(@, Deref(w, palette), first, amount)]

\* Video::restoreSurfacePalette, called for the screen surface
restoreSurfacePalette(w) ==
    [w EXCEPT !.sdl.colors =
        SDL_SetPaletteColors(@, w.video.logicalPalette, 0, NumColors)]

\* The cases of update's switch other than SDL_KEYDOWN, with the
\* SDL_VIDEOEXPOSE case of the SDL 1.2 build compiled in
updateOtherEventExpose(w, event) ==
    IF event.type = "SDL_VIDEOEXPOSE" THEN expose(w) ELSE w

\* The cases of update's switch other than SDL_KEYDOWN: none in the SDL2 build
updateOtherEvent(w, event) == w

\* Video::update
update(w, event, windowOk, screenOk) ==
    IF event.type = "SDL_KEYDOWN"
    THEN IF (event.sym = "SDLK_RETURN") /\ event.alt
         THEN LET full == ~w.video.fullscreen
                  w1 == [w EXCEPT !.video.fullscreen = full,
                                  !.sdl.cursor = IF full THEN FALSE ELSE @]
                  w2 == reset(w1, w1.video.screenW, w1.video.screenH,
                              windowOk, screenOk)
              IN  IF w2.app.crashed THEN w2
                  ELSE LET w3 == [w2 EXCEPT
                                      !.sdl.cursor = IF ~full THEN TRUE ELSE @,
                                      !.log.ret = "void"]
                       IN  findMaxResolution(w3)
         ELSE w
    ELSE updateOtherEvent(w, event)

---------------------------------------------------------------------------
(* File::loadRLE (declared in file.h; the decoder of section 4.2)          *)

RLEBytes == {0, 1, 128, 129}

RECURSIVE Copies(_, _)
Copies(byte, n) == IF n = 0 THEN <<>> ELSE <<byte>> \o Copies(byte, n - 1)

RLEResult(status, output, pos) ==
    [status |-> status, output |-> output, consumed |-> pos - 1]

\* One run of a decoder that cuts a run short at the declared length
\* instead of failing.
RECURSIVE DecodeRLEClipped(_, _, _, _)
DecodeRLEClipped(input, pos, output, length) ==
    IF Len(output) >= length THEN RLEResult("ok", SubSeq(output, 1, length), pos)
    ELSE IF pos > Len(input) THEN RLEResult("DecodeUnderrun", <<>>, pos)
    ELSE LET control == input[pos]
             run == (control % 128) + 1
         IN  IF control >= 128
             THEN IF pos + run > Len(input)
                  THEN RLEResult("DecodeOverrun", <<>>, pos)
                  ELSE DecodeRLEClipped(input, pos + 1 + run,
                           output \o SubSeq(input, pos + 1, pos + run), length)
             ELSE IF pos + 1 > Len(input)
                  THEN RLEResult("DecodeOverrun", <<>>, pos)
                  ELSE DecodeRLEClipped(input, pos + 2,
                           output \o Copies(input[pos + 1], run), length)

\* Read control bytes until exactly length bytes are out.  High bit set: the
\* low 7 bits + 1 bytes follow and are copied; else the next byte is
\* repeated low 7 bits + 1 times.
RECURSIVE DecodeRLE(_, _, _, _)
DecodeRLE(input, pos, output, length) ==
    IF Len(output) = length THEN RLEResult("ok", output, pos)
    ELSE IF pos > Len(input) THEN RLEResult("DecodeUnderrun", <<>>, pos)
    ELSE LET control == input[pos]
             run == (control % 128) + 1
         IN  IF Len(output) + run > length
             THEN RLEResult("DecodeOverrun", <<>>, pos)
             ELSE IF control >= 128
             THEN IF pos + run > Len(input)
                  THEN RLEResult("DecodeOverrun", <<>>, pos)
                  ELSE DecodeRLE(input, pos + 1 + run,
                           output \o SubSeq(input, pos + 1, pos + run), length)
             ELSE IF pos + 1 > Len(input)
                  THEN RLEResult("DecodeOverrun", <<>>, pos)
                  ELSE DecodeRLE(input, pos + 2,
                           output \o Copies(input[pos + 1], run), length)

\* File::loadRLE(length) on a stream
loadRLEClipped(input, length) == DecodeRLEClipped(input, 1, <<>>, length)

loadRLE(input, length) == DecodeRLE(input, 1, <<>>, length)

RLEInputs == UNION {[1 .. n -> RLEBytes] : n \in 0 .. MaxRLEInput}

---------------------------------------------------------------------------
(* State, history and the calls *)

World == [video |-> video, sdl |-> sdl, app |-> app, log |-> EmptyLog]

Ready == (video.screen # NULL) /\ ~app.crashed

NoEvent == [type |-> "none", sym |-> "none", alt |-> FALSE]

\* The call that ran last: its name, its arguments, and what it handed to
\* the display and returned (history, not program state).
Call(op) ==
    [op |-> op, palette |-> "none", first |-> 0, amount |-> 0,
     chain |-> <<>>, pos |-> 0, event |-> NoEvent, log |-> EmptyLog]

\* patch (history): for every index, whether a changePalette has written it
\* and no call has rewritten the whole table since (kept), and the colour
\* it wrote.
Unpatched == [k \in 1 .. NumColors |-> [kept |-> FALSE, color |-> Black]]

PatchWritten(old, table, first, amount) ==
    [k \in 1 .. NumColors |->
        IF (k - 1 >= first) /\ (k - 1 < first + amount)
        THEN [kept |-> TRUE, color |-> table[k]]
        ELSE old[k]]

Return(w, call, newPatch) ==
    /\ video' = w.video
    /\ sdl' = w.sdl
    /\ app' = w.app
    /\ last' = [call EXCEPT !.log = w.log]
    /\ patch' = newPatch
    /\ UNCHANGED rle

DefaultSize == [w |-> NumPixels, h |-> 1]

Sizes == {DefaultSize, [w |-> 2 * NumPixels, h |-> 2]}

AltEnter == [type |-> "SDL_KEYDOWN", sym |-> "SDLK_RETURN", alt |-> TRUE]

Events ==
    {AltEnter,
     [type |-> "SDL_KEYDOWN", sym |-> "SDLK_RETURN", alt |-> FALSE],
     [type |-> "SDL_KEYDOWN", sym |-> "SDLK_SPACE", alt |-> TRUE],
     [type |-> "SDL_KEYUP", sym |-> "SDLK_RETURN", alt |-> TRUE],
     [type |-> "SDL_VIDEOEXPOSE", sym |-> "none", alt |-> FALSE],
     [type |-> "SDL_VIDEORESIZE", sym |-> "none", alt |-> FALSE]}

CallInit(sizes, fulls, oks) ==
    /\ video.screen = NULL
    /\ ~app.crashed
    /\ \E size \in sizes, full \in fulls, windowOk \in oks, screenOk \in oks :
          Return(init(World, size.w, size.h, full, windowOk, screenOk),
                 Call("init"), Unpatched)

CallReset ==
    /\ Ready
    /\ \E size \in Sizes, windowOk \in BOOLEAN, screenOk \in BOOLEAN :
          Return(reset(World, size.w, size.h, windowOk, screenOk),
                 Call("reset"), Unpatched)

CallSetPalette ==
    /\ Ready
    /\ \E p \in PalettePtrs :
          Return(setPalette(World, p),
                 [Call("setPalette") EXCEPT !.palette = p], Unpatched)

\* A changePalette that follows another one, with no whole-table write in
\* between, is taken when it overwrites the whole table.
CallChangePalette(firsts, amounts) ==
    /\ Ready
    /\ \E p \in PalettePtrs, first \in firsts, amount \in amounts :
          LET w == changePalette(World, p, first, amount)
          IN  /\ (patch = Unpatched) \/ (first = 0 /\ amount >= NumColors)
              /\ Return(w, [Call("changePalette") EXCEPT !.palette = p,
                               !.first = first, !.amount = amount],
                        PatchWritten(patch, w.sdl.colors, first, amount))

CallRestoreSurfacePalette ==
    /\ Ready
    /\ Return(restoreSurfacePalette(World), Call("restoreSurfacePalette"),
              Unpatched)

CallExpose ==
    /\ Ready
    /\ Return(expose(World), Call("expose"), Unpatched)

CallUpdate ==
    /\ Ready
    /\ \E event \in Events, windowOk \in BOOLEAN, screenOk \in BOOLEAN :
          Return(update(World, event, windowOk, screenOk),
                 [Call("update") EXCEPT !.event = event],
                 IF event = AltEnter THEN Unpatched ELSE patch)

CallFlip ==
    /\ Ready
    /\ \E mspf \in 0 .. (FxPeriod - 1), chain \in Chains, stopped \in BOOLEAN :
          Return(flip(World, mspf, chain, stopped),
                 [Call("flip") EXCEPT !.chain = chain, !.pos = app.fxPos],
                 IF chain # <<>> THEN Unpatched ELSE patch)

CallClearScreen ==
    /\ Ready
    /\ Return(clearScreen(World, 0), Call("clearScreen"), patch)

CallDrawRect ==
    /\ Ready
    /\ \E x \in 0 .. (NumPixels - 1) :
          Return(drawRect(World, x, 1, NumColors - 1), Call("drawRect"), patch)

\* Video::Video.  fakePalette and the sizes are not set by the constructor;
\* nothing reads them before reset has set them.
InitVideo ==
    /\ video \in [logicalPalette : {IdentityPalette},
                  currentPalette : {"logicalPalette"},
                  fakePalette : BOOLEAN,
                  fullscreen : {FALSE},
                  window : {NULL}, screen : {NULL}, canvas : {NULL},
                  screenW : {0}, screenH : {0}, canvasW : {0}, canvasH : {0},
                  maxW : {0}, maxH : {0}]
    /\ sdl = [colors |-> <<>>, pixels |-> <<>>, title |-> "", cursor |-> TRUE]
    /\ app = [palettes |-> CallerPalettes, fxPos |-> 0, crashed |-> FALSE]
    /\ last = Call("Video")
    /\ patch = Unpatched

NoRLE == [input |-> <<>>, length |-> 0, result |-> "idle", output |-> <<>>,
          consumed |-> 0]

Init == InitVideo /\ rle = NoRLE

\* The palette and frame pipeline: the mode is set once, by a successful
\* init, and every palette and drawing call follows in any order.
Next ==
    \/ CallInit({DefaultSize}, {FALSE}, {TRUE})
    \/ CallSetPalette
    \/ CallChangePalette(Index, {1, 2, NumColors + 1})
    \/ CallRestoreSurfacePalette
    \/ CallExpose
    \/ CallFlip
    \/ CallClearScreen
    \/ CallDrawRect

Spec == Init /\ [][Next]_vars

\* Every operation of Video, with the mode set and reset in every way and
\* the display failing or not; nothing is drawn.
NextVideo ==
    \/ CallInit(Sizes, BOOLEAN, BOOLEAN)
    \/ CallReset
    \/ CallUpdate
    \/ CallSetPalette
    \/ CallChangePalette({1}, {1})
    \/ CallRestoreSurfacePalette
    \/ CallExpose
    \/ CallFlip

SpecVideo == Init /\ [][NextVideo]_vars

\* A file positioned at an RLE block, and the length its caller declares
InitRLE ==
    /\ InitVideo
    /\ rle \in [input : RLEInputs, length : 0 .. MaxRLELength,
                 result : {"none"}, output : {<<>>}, consumed : {0}]

CallLoadRLE ==
    /\ rle.result = "none"
    /\ LET r == loadRLE(rle.input, rle.length)
       IN  rle' = [rle EXCEPT !.result = r.status, !.output = r.output,
                              !.consumed = r.consumed]
    /\ UNCHANGED <<video, sdl, app, last, patch>>

NextRLE == CallLoadRLE

SpecRLE == InitRLE /\ [][NextRLE]_vars

---------------------------------------------------------------------------
(* Properties *)

\* The colours currentPalette points to
Physical == Deref([video |-> video, app |-> app], video.currentPalette)

\* The frame a pixel buffer gives when converted through a palette
Remap(pixels, palette) ==
    [k \in 1 .. NumPixels |-> PackRGBA(At(palette, pixels[k]))]

FlippedWithEffects == (last.op = "flip") /\ (last.chain # <<>>)

\* C1: in emulated mode a flip with an effect chain leaves the colours that
\* currentPalette points to as they were, and pushes the scratch copy (those
\* colours with the chain applied) to the display's palette table.
C1_FlipKeepsPhysicalPalette ==
    [][(last'.op = "flip" /\ last'.chain # <<>> /\ video.fakePalette)
        => /\ Physical' = Physical
           /\ video'.currentPalette = video.currentPalette
           /\ app'.palettes = app.palettes
           /\ video'.logicalPalette = video.logicalPalette
           /\ sdl'.colors = ApplyChain(Physical, last'.chain, last'.pos)]_vars

C1_Witness ==
    /\ FlippedWithEffects
    /\ video.fakePalette
    /\ video.currentPalette = "level"
    /\ sdl.colors # Physical

\* C2: changePalette(colors, first, amount) leaves every table entry outside
\* [first, first + amount) as it was, draws nothing, presents nothing and
\* leaves currentPalette alone.
C2_ChangePaletteOnlyInRange ==
    [][(last'.op = "changePalette")
        => /\ \A i \in Index :
                 (i < last'.first \/ i >= last'.first + last'.amount)
                     => At(sdl'.colors, i) = At(sdl.colors, i)
           /\ sdl'.pixels = sdl.pixels
           /\ last'.log.frames = <<>>
           /\ last'.log.presents = 0
           /\ video' = video
           /\ app' = app]_vars

C2_Witness ==
    /\ last.op = "changePalette"
    /\ last.first = 1
    /\ last.amount = 1
    /\ At(sdl.colors, 1) # At(Physical, 1)
    /\ At(sdl.colors, 0) = At(Physical, 0)

\* C3: setPalette(p) fills the whole framebuffer with the index black maps
\* to, presents exactly one frame, converted through the old table, then
\* replaces the table by p and points currentPalette to p; the pixels left
\* for later frames are the blank ones.
C3_SetPaletteOrder ==
    [][(last'.op = "setPalette")
        => LET blank == SDL_MapRGB(sdl.colors, Black)
           IN  /\ sdl'.pixels = [k \in 1 .. NumPixels |-> blank]
               /\ last'.log.frames =
                      <<[k \in 1 .. NumPixels |-> PackRGBA(At(sdl.colors, blank))]>>
               /\ last'.log.presents = 1
               /\ sdl'.colors =
                      Deref([video |-> video, app |-> app], last'.palette)
               /\ video'.currentPalette = last'.palette]_vars

C3_Witness ==
    /\ last.op = "setPalette"
    /\ last.palette = "level"
    /\ Len(last.log.frames) = 1
    /\ last.log.frames[1] # Remap(sdl.pixels, sdl.colors)

\* C4 as claimed: every frame flip presents shows each pixel in the colour
\* that currentPalette with the call's effect chain applied holds at the
\* pixel's index.
C4_Original ==
    (last.op = "flip" /\ video.fakePalette)
        => last.log.frames =
               <<Remap(sdl.pixels, ApplyChain(Physical, last.chain, last.pos))>>

\* C4 amended: every frame flip presents shows each pixel in the colour the
\* display palette table holds at the pixel's index; a flip with an effect
\* chain first sets the table to currentPalette with the chain applied, a
\* flip without one leaves the table as the last call wrote it.
C4_FrameShowsTable ==
    [][(last'.op = "flip" /\ video.fakePalette)
        => /\ last'.log.frames = <<Remap(sdl.pixels, sdl'.colors)>>
           /\ sdl'.pixels = sdl.pixels
           /\ (last'.chain # <<>>)
                 => sdl'.colors = ApplyChain(Physical, last'.chain, last'.pos)
           /\ (last'.chain = <<>>) => sdl'.colors = sdl.colors]_vars

C4_Witness ==
    /\ last.op = "flip"
    /\ last.chain = <<>>
    /\ video.fakePalette
    /\ last.log.frames = <<Remap(sdl.pixels, sdl.colors)>>
    /\ last.log.frames # <<Remap(sdl.pixels, Physical)>>

\* C5: the logical palette is the identity palette in every state.
C5_LogicalPaletteIdentity ==
    \A i \in Index : At(video.logicalPalette, i) = Color(i, i, i)

C5_Witness ==
    /\ FlippedWithEffects
    /\ video.currentPalette = "logicalPalette"
    /\ sdl.colors # video.logicalPalette

\* C6 as claimed: after changePalette(palette, first, amount), table entry
\* first + i is palette[first + i] for every i < amount.
C6_Original ==
    (last.op = "changePalette")
        => \A i \in 0 .. (last.amount - 1) :
              (last.first + i <= NumColors - 1)
                  => At(sdl.colors, last.first + i) =
                         At(Deref([video |-> video, app |-> app], last.palette),
                            last.first + i)

\* The runs of a stream: for each complete run, the output bytes the runs up
\* to it claim and the position after it.
RECURSIVE Runs(_, _, _)
Runs(input, pos, total) ==
    IF pos > Len(input) THEN <<>>
    ELSE LET run == (input[pos] % 128) + 1
             next == IF input[pos] >= 128 THEN pos + 1 + run ELSE pos + 2
         IN  IF next - 1 > Len(input) THEN <<>>
             ELSE <<[total |-> total + run, next |-> next]>>
                      \o Runs(input, next, total + run)

RunsBefore(runs, j) == IF j = 1 THEN 0 ELSE runs[j - 1].total

\* C7: loadRLE(N) returns exactly N bytes, stopping after the run that
\* completes them, for every stream whose runs add up to N; a stream whose
\* runs claim more than N fails with DecodeOverrun and returns no bytes.
C7_LoadRLEExactLength ==
    (rle.result # "none")
        => LET runs == Runs(rle.input, 1, 0)
           IN  /\ (rle.result = "ok") => Len(rle.output) = rle.length
               /\ \A j \in 1 .. Len(runs) :
                     /\ (runs[j].total = rle.length)
                           => /\ rle.result = "ok"
                              /\ Len(rle.output) = rle.length
                              /\ rle.consumed = runs[j].next - 1
                     /\ (RunsBefore(runs, j) < rle.length /\ runs[j].total > rle.length)
                           => /\ rle.result = "DecodeOverrun"
                              /\ rle.output = <<>>

C7_Witness ==
    /\ rle.result = "DecodeOverrun"
    /\ rle.length >= 2
    /\ \E j \in 1 .. Len(Runs(rle.input, 1, 0)) :
          /\ RunsBefore(Runs(rle.input, 1, 0), j) < rle.length
          /\ RunsBefore(Runs(rle.input, 1, 0), j) > 0
          /\ Runs(rle.input, 1, 0)[j].total > rle.length

\* C8 as claimed: when the display gives no window or no screen surface,
\* reset returns false, and init logs the error and returns false without
\* setting the title or the maximum resolution.
C8_Original ==
    (last.op \in {"init", "reset"} /\ ~app.crashed
       /\ (video.window = NULL \/ video.screen = NULL))
        => /\ last.log.ret = FALSE
           /\ (last.op = "init")
                 => /\ last.log.errors = <<"Could not set video mode">>
                    /\ sdl.title = ""
                    /\ video.maxW = 0

\* C9: update with any event but a key-down of Return with Alt held leaves
\* the Video object, the screen surface and the display untouched: nothing
\* is created and nothing presented.
C9_UpdateIgnoresOtherEvents ==
    [][(last'.op = "update" /\ last'.event # AltEnter)
        => /\ video' = video
           /\ sdl' = sdl
           /\ app' = app
           /\ last'.log = EmptyLog]_vars

C9_Witness ==
    /\ last.op = "update"
    /\ last.event.type = "SDL_VIDEOEXPOSE"
    /\ sdl.colors # Physical
    /\ ~app.crashed

\* The colours a flip would show if the partial updates were part of the
\* physical palette: currentPalette's colours with the kept updates on top
Patched ==
    [k \in 1 .. NumColors |->
        IF patch[k].kept THEN patch[k].color ELSE Physical[k]]

\* C10 as claimed, for the flips that follow a changePalette with no other
\* palette call in between: the frame shows every pixel whose index the
\* changePalette wrote in the colour it wrote, with the effect chain applied.
C10_Original ==
    [][(last'.op = "flip")
        => \A k \in 1 .. NumColors : \A x \in 1 .. NumPixels :
              (patch[k].kept /\ sdl.pixels[x] = k - 1)
                  => last'.log.frames[1][x] =
                         PackRGBA(ApplyChain(Patched, last'.chain, last'.pos)[k])]_vars

\* C10 amended: the colours changePalette wrote stay in the table, and every
\* flip without an effect chain shows them, until the next call that writes
\* the whole table: setPalette, a flip with an effect chain, expose,
\* restoreSurfacePalette or a reset.
C10_PatchKeptUntilTableRewritten ==
    \A k \in 1 .. NumColors :
        patch[k].kept
            => /\ sdl.colors[k] = patch[k].color
               /\ (last.op = "flip")
                     => \A x \in 1 .. NumPixels :
                           (sdl.pixels[x] = k - 1)
                               => last.log.frames[1][x] = PackRGBA(patch[k].color)

C10_Witness ==
    /\ last.op = "flip"
    /\ \E k \in 1 .. NumColors : \E x \in 1 .. NumPixels :
          /\ patch[k].kept
          /\ sdl.pixels[x] = k - 1
          /\ patch[k].color # Physical[k]
          /\ last.log.frames[1][x] = PackRGBA(patch[k].color)

=============================================================================
